---------------------------- MODULE Spec2Model ----------------------------
(***************************************************************************)
(* Model of the train-data converter: src/app.py (the FastAPI service) and *)
(* src/converter.py (the stand-alone script).                              *)
(*                                                                         *)
(* A conversion (convert_text_to_json) is a bounded retry loop around      *)
(* invoke -> parse -> validate_json.  The remote model is the environment: *)
(* every invocation either raises or returns a text, chosen freely.        *)
(* build_chain only constructs configuration objects and is taken not to   *)
(* fail; max_retries ranges over the naturals (range(max_retries + 1) of a *)
(* negative max_retries is empty and is outside every statement below).    *)
(***************************************************************************)
EXTENDS Integers, Sequences, FiniteSets, TLC

VARIABLES
    mode,         \* "server": app.py behind uvicorn; "script": one direct call
    loop,         \* the request whose coroutine runs on the event loop, 0: none
    pc,           \* per call: its position in the code
    request,      \* per call: the HTTP request being served (server only)
    frame,        \* per call: the locals of convert_text_to_json
    result,       \* per call: what convert_text_to_json returned or raised
    response,     \* per call: the HTTP response (server only)
    invocations,  \* per call: chain.invoke calls issued so far
    sleeps,       \* per call: time.sleep(1) calls issued so far
    hist          \* per call: history of the call (what its invocations did)

vars == <<mode, loop, pc, request, frame, result, response, invocations, sleeps, hist>>

---------------------------------------------------------------------------
(* Bounds of the model *)

NumRequests == 2
MaxRetriesBound == 2
(* Concurrent direct calls, and the largest max_retries given to them. *)
NumThreads == 2
ThreadRetriesBound == 1

(* max_retries=2, the default the endpoints rely on *)
DEFAULT_MAX_RETRIES == 2

---------------------------------------------------------------------------
(* JSON values.  A value is [kind, map]: for an object, map is the object  *)
(* itself (key |-> value); for an array, DOMAIN map is the set of schema   *)
(* key names among its elements; for a string, the set of schema key names *)
(* that are substrings of it; a scalar (number, boolean, null) has the     *)
(* empty map.  That is all `key in data` and `data[key] = ...` depend on.  *)

required_keys ==
    << "date", "branding_priorities", "cleaning_slots", "stabling_geometry",
       "fitness_certificates", "job_card_status", "mileage" >>

RequiredSet == { required_keys[i] : i \in 1..Len(required_keys) }

NotSpecified == "Not specified"

AllKeys == RequiredSet \cup {"extra"}

Values == {"v", NotSpecified}

EmptyMap == [k \in {} |-> "v"]

Obj(m) == [kind |-> "object", map |-> m]
Arr(S) == [kind |-> "array", map |-> [k \in S |-> "elem"]]
Str(S) == [kind |-> "string", map |-> [k \in S |-> "sub"]]
Scalar == [kind |-> "scalar", map |-> EmptyMap]
(* None, what a Python function returns when it runs off its end. *)
PyNone == [kind |-> "None", map |-> EmptyMap]
NoValue == [kind |-> "none", map |-> EmptyMap]

Maps(K, V) == UNION { [S -> V] : S \in SUBSET K }

(* Every JSON value over the schema keys plus one foreign key. *)
JsonValues ==
    { Obj(m) : m \in Maps(AllKeys, Values) }
    \cup { Arr(S) : S \in SUBSET AllKeys }
    \cup { Str(S) : S \in SUBSET AllKeys }
    \cup { Scalar }

(* Exceptions: [type, at].  JSONDecodeError, OutputParserException and     *)
(* UnicodeDecodeError are subclasses of ValueError.                        *)
Exc(t, a) == [type |-> t, at |-> a]
NoExc == Exc("none", "none")
IsValueError(e) ==
    e.type \in {"ValueError", "JSONDecodeError", "OutputParserException", "UnicodeDecodeError"}

Ok(v) == [ok |-> TRUE, value |-> v, exc |-> NoExc]
Err(e) == [ok |-> FALSE, value |-> NoValue, exc |-> e]

(* Texts.  A text is [form, value]: "plain" is exactly the JSON encoding   *)
(* of value; "wrapped" is that encoding inside prose or a code fence, or   *)
(* cut short; "strict_only" is valid JSON that the tolerant parser of the  *)
(* installed langchain release mishandles (a fence inside a string value); *)
(* "prose" holds no JSON at all.                                           *)
Text(f, v) == [form |-> f, value |-> v]
NoText == Text("none", NoValue)
Prose == Text("prose", NoValue)

json_dumps(v) == Text("plain", v)

json_loads(t) ==
    IF t.form \in {"plain", "strict_only"} THEN Ok(t.value)
    ELSE Err(Exc("JSONDecodeError", "json.loads"))

(* JsonOutputParser.parse: JSON, also inside a markdown fence or prose. *)
parser_parse(t) ==
    IF t.form \in {"plain", "wrapped"} THEN Ok(t.value)
    ELSE Err(Exc("OutputParserException", "parser.parse"))

(* `key in data` is defined for dict, list and str only. *)
SupportsIn(data) == data.kind \in {"object", "array", "string"}
Contains(data, key) == key \in DOMAIN data.map

SetItem(data, key, val) ==
    Obj([k \in (DOMAIN data.map) \cup {key} |-> IF k = key THEN val ELSE data.map[k]])

(* app.py: the loop that adds every missing key (lines 78-80), from the    *)
(* i-th required key on.                                                   *)
RECURSIVE add_missing_keys(_, _)
add_missing_keys(data, i) ==
    IF i > Len(required_keys) THEN Ok(data)
    ELSE IF ~SupportsIn(data) THEN Err(Exc("TypeError", "validate_json"))
    ELSE IF Contains(data, required_keys[i]) THEN add_missing_keys(data, i + 1)
    ELSE IF data.kind = "object"
         THEN add_missing_keys(SetItem(data, required_keys[i], NotSpecified), i + 1)
         ELSE Err(Exc("TypeError", "validate_json"))

(* converter.py: the loop that rejects a missing key (lines 48-50). *)
RECURSIVE reject_missing_keys(_, _)
reject_missing_keys(data, i) ==
    IF i > Len(required_keys) THEN Ok(data)
    ELSE IF ~SupportsIn(data) THEN Err(Exc("TypeError", "validate_json"))
    ELSE IF Contains(data, required_keys[i]) THEN reject_missing_keys(data, i + 1)
    ELSE Err(Exc("ValueError", "validate_json"))

(* validate_json of app.py without the loop of lines 78-80. *)
validate_json_app_nofill(json_str) ==
    LET loaded == json_loads(json_str) IN
    IF ~loaded.ok THEN Err(Exc("ValueError", "validate_json"))
    ELSE Ok(loaded.value)

(* validate_json of app.py assigning "Not specified" to every required     *)
(* key, present or not.                                                    *)
validate_json_app_overwrite(json_str) ==
    LET loaded == json_loads(json_str) IN
    IF ~loaded.ok THEN Err(Exc("ValueError", "validate_json"))
    ELSE IF loaded.value.kind # "object" THEN add_missing_keys(loaded.value, 1)
    ELSE Ok(Obj([k \in (DOMAIN loaded.value.map) \cup RequiredSet |->
                   IF k \in RequiredSet THEN NotSpecified ELSE loaded.value.map[k]]))

validate_json_app(json_str) ==
    LET loaded == json_loads(json_str) IN
    IF ~loaded.ok THEN Err(Exc("ValueError", "validate_json"))
    ELSE add_missing_keys(loaded.value, 1)

validate_json_converter(json_str) ==
    LET loaded == json_loads(json_str) IN
    IF ~loaded.ok THEN Err(Exc("ValueError", "validate_json"))
    ELSE reject_missing_keys(loaded.value, 1)

validate_json(module, json_str) ==
    IF module = "app" THEN validate_json_app(json_str)
    ELSE validate_json_converter(json_str)

---------------------------------------------------------------------------
(* Strings the boundary checks look at.  A filename is a sequence of       *)
(* pieces, a text a sequence of characters (" " is whitespace).            *)

Filenames == { <<"notes", ".txt">>, <<"notes", ".md">>, <<".txt", ".md">> }

endswith(name, suffix) == Len(name) > 0 /\ name[Len(name)] = suffix

RawTexts == { <<>>, <<" ">>, <<" ", " ">>, <<" ", "a">> }

RECURSIVE lstrip(_)
lstrip(s) == IF s # <<>> /\ Head(s) = " " THEN lstrip(Tail(s)) ELSE s

RECURSIVE rstrip(_)
rstrip(s) == IF s # <<>> /\ s[Len(s)] = " " THEN rstrip(SubSeq(s, 1, Len(s) - 1)) ELSE s

(* The emptiness checks without .strip(). *)
strip_missing(s) == s

strip(s) == rstrip(lstrip(s))

(* An uploaded file: bytes that decode to a text, or that are not UTF-8. *)
Contents == [utf8 : {TRUE}, text : RawTexts] \cup {[utf8 |-> FALSE, text |-> <<>>]}

(* The JSON body of POST /convert-text: no "text" field, a string, or a   *)
(* "text" that is not a string.                                            *)
Bodies == [has_text : {TRUE}, is_str : {TRUE}, text : RawTexts]
          \cup {[has_text |-> FALSE, is_str |-> FALSE, text |-> <<>>],
                [has_text |-> TRUE, is_str |-> FALSE, text |-> <<>>]}

NoBody == [has_text |-> FALSE, is_str |-> FALSE, text |-> <<>>]
NoContent == [utf8 |-> FALSE, text |-> <<>>]

Requests ==
    [endpoint : {"convert"}, filename : Filenames, content : Contents, body : {NoBody}]
    \cup [endpoint : {"convert-text"}, filename : {<<>>}, content : {NoContent}, body : Bodies]

NoRequest == [endpoint |-> "none", filename |-> <<>>, content |-> NoContent, body |-> NoBody]

(* What the remote model may answer: prose, or the JSON below, plain or    *)
(* wrapped in prose or a code fence.                                       *)
ModelValues ==
    { Obj(EmptyMap),
      Obj([k \in {"cleaning_slots"} |-> "v"]),
      Obj([k \in RequiredSet |-> "v"]),
      Obj([k \in AllKeys |-> "v"]),
      Arr({}), Arr(RequiredSet),
      Str({}), Str(RequiredSet),
      Scalar }

ModelTexts ==
    {Prose, Text("strict_only", Obj([k \in {"cleaning_slots"} |-> "v"]))}
    \cup { Text(f, v) : f \in {"plain", "wrapped"}, v \in ModelValues }

(* What chain.invoke may raise: a ValueError (a malformed reply of the     *)
(* endpoint, a validation error) or anything else (network, timeout).      *)
InvokeErrors == { Exc("ValueError", "chain.invoke"), Exc("Exception", "chain.invoke") }

(* The answers given to concurrent calls: one text for each way an attempt *)
(* can go (no JSON, an object, a value the completion rejects).            *)
ThreadTexts ==
    { Prose, Text("plain", Obj([k \in {"cleaning_slots"} |-> "v"])), Text("plain", Arr({})) }

---------------------------------------------------------------------------
(* The state of one call *)

Procs == DOMAIN pc

NoFrame ==
    [module |-> "none", max_retries |-> 0, raw_text |-> <<>>, attempt |-> 0,
     site |-> "none", prompt |-> <<>>, text_out |-> NoText, data |-> NoValue, exc |-> NoExc]

(* convert_text_to_json up to the loop: build_chain and the prompt. *)
NewFrame(module, max_retries, raw_text) ==
    [module |-> module, max_retries |-> max_retries, raw_text |-> raw_text, attempt |-> 0,
     site |-> "none", prompt |-> <<>>, text_out |-> NoText, data |-> NoValue, exc |-> NoExc]

NoResult == [kind |-> "none", value |-> NoValue, exc |-> NoExc]
Returned(v) == [kind |-> "returned", value |-> v, exc |-> NoExc]
Raised(e) == [kind |-> "raised", value |-> NoValue, exc |-> e]

NoResponse == [status |-> 0, detail |-> "none", cause |-> NoExc, data |-> NoValue]
HTTPException(status, detail, cause) ==
    [status |-> status, detail |-> detail, cause |-> cause, data |-> NoValue]
JSONResponse(data) == [status |-> 200, detail |-> "success", cause |-> NoExc, data |-> data]

(* A call running alone before its first invocation. *)
NoAlone == [pc |-> "running", attempt |-> 0, site |-> "try", result |-> NoResult,
            invocations |-> 0]

NoHist == [all |-> "none", last |-> "none", unwaited |-> FALSE, out |-> NoText,
           alone |-> NoAlone]

(* hist.out: the text the latest invocation returned (NoText: none yet, or *)
(* it raised).                                                             *)
(* hist.all: what every invocation of the call so far did, "mixed" when    *)
(* they differ: "invoke_raised", "unparseable" (a text without JSON),      *)
(* "object" or "nonobject" (a text holding that JSON).                     *)
Seen(h, tag) ==
    [h EXCEPT !.all = IF @ \in {"none", tag} THEN tag ELSE "mixed"]

Outcome(t) ==
    IF t.form = "prose" THEN "unparseable"
    ELSE IF t.value.kind = "object" THEN "object" ELSE "nonobject"

(* Synchronous code of a request runs on the event loop; a script has     *)
(* none, and threads run side by side.                                     *)
Running(p) == mode \in {"script", "threads"} \/ loop = p

---------------------------------------------------------------------------
(* convert_text_to_json *)

(* The handlers re-raising at once instead of on the last attempt only. *)
after_exception_no_retry(f, e) ==
    IF f.module = "app" /\ f.site = "try" /\ IsValueError(e) THEN "handler_invoke"
    ELSE "raised"

(* app.py handing every exception of the try body to the handler that     *)
(* invokes the model again, and that handler catching its own ValueError.  *)
after_exception_always_reinvoke(f, e) ==
    IF f.module = "app" /\ (f.site = "try" \/ IsValueError(e)) THEN "handler_invoke"
    ELSE IF f.attempt = f.max_retries THEN "raised"
    ELSE "sleeping"

(* Where an exception e raised in the loop body leads: app.py hands a      *)
(* ValueError of the try body to the handler that invokes the model again  *)
(* (lines 110-115); everything else, and everything in converter.py, is    *)
(* re-raised on the last attempt and followed by time.sleep(1) otherwise.  *)
after_exception(f, e) ==
    IF f.module = "app" /\ f.site = "try" /\ IsValueError(e) THEN "handler_invoke"
    ELSE IF f.attempt = f.max_retries THEN "raised"
    ELSE "sleeping"

(* A step with the attempt counter kept in one place for all calls. *)
Step_shared_attempt(p, newpc, newframe, newresult, newhist) ==
    /\ pc' = [pc EXCEPT ![p] = newpc]
    /\ frame' = [q \in Procs |-> IF q = p THEN newframe
                                 ELSE [frame[q] EXCEPT !.attempt = newframe.attempt]]
    /\ result' = [result EXCEPT ![p] = newresult]
    /\ sleeps' = [sleeps EXCEPT ![p] = IF newpc = "sleeping" THEN @ + 1 ELSE @]
    /\ hist' = [hist EXCEPT ![p] = IF newpc = "sleeping" THEN [newhist EXCEPT !.last = "sleep"]
                                   ELSE newhist]
    /\ UNCHANGED <<mode, loop, request, response>>

(* One step of call p that touches nothing but the call itself. *)
Step(p, newpc, newframe, newresult, newhist) ==
    /\ pc' = [pc EXCEPT ![p] = newpc]
    /\ frame' = [frame EXCEPT ![p] = newframe]
    /\ result' = [result EXCEPT ![p] = newresult]
    /\ sleeps' = [sleeps EXCEPT ![p] = IF newpc = "sleeping" THEN @ + 1 ELSE @]
    /\ hist' = [hist EXCEPT ![p] = IF newpc = "sleeping" THEN [newhist EXCEPT !.last = "sleep"]
                                   ELSE newhist]
    /\ UNCHANGED <<mode, loop, request, response>>

(* Exception e propagates out of the try body or out of the handler. *)
Throw(p, e, newhist) ==
    LET nxt == after_exception(frame[p], e) IN
    Step(p, nxt, [frame[p] EXCEPT !.exc = e],
         IF nxt = "raised" THEN Raised(e) ELSE result[p], newhist)

(* The parsing of lines 101-104 without its except clause. *)
parse_text_tolerant_only(t) == parser_parse(t)

(* parser.parse, and json.loads when it fails (lines 101-104, 122-125). *)
parse_text(t) ==
    LET tolerant == parser_parse(t) IN
    IF tolerant.ok THEN tolerant ELSE json_loads(t)

(* hist.alone: for concurrent calls, where a call of app.py that runs      *)
(* alone stands after the same answers to its invocations.                 *)

(* What the next answer (a text returned or an exception raised by         *)
(* chain.invoke) makes of a call that runs alone: lines 91-137 from one    *)
(* chain.invoke to the next.                                               *)
alone_step(a, max_retries, answer) ==
    IF a.pc # "running" THEN a
    ELSE LET f == [module |-> "app", max_retries |-> max_retries, attempt |-> a.attempt,
                   site |-> a.site]
             parsed == IF answer.ok THEN parse_text(answer.value) ELSE answer
             validated == IF parsed.ok THEN validate_json("app", json_dumps(parsed.value))
                          ELSE parsed
             nxt == after_exception(f, validated.exc)
             made == [a EXCEPT !.invocations = @ + 1]
         IN  IF validated.ok
             THEN [made EXCEPT !.pc = "returned", !.result = Returned(validated.value)]
             ELSE IF nxt = "raised"
             THEN [made EXCEPT !.pc = "raised", !.result = Raised(validated.exc)]
             ELSE IF nxt = "handler_invoke"
             THEN [made EXCEPT !.site = "handler"]
             ELSE [made EXCEPT !.site = "try", !.attempt = @ + 1]

Logged(h, max_retries, answer) ==
    IF mode = "threads" THEN [h EXCEPT !.alone = alone_step(@, max_retries, answer)] ELSE h

(* chain.invoke is called: lines 93-94, and in the handler lines 114-115. *)
Invoke(p) ==
    /\ pc[p] \in {"try_invoke", "handler_invoke"}
    /\ Running(p)
    /\ invocations' = [invocations EXCEPT ![p] = @ + 1]
    /\ Step(p, "invoking",
            [frame[p] EXCEPT !.site = IF pc[p] = "try_invoke" THEN "try" ELSE "handler",
                             !.prompt = frame[p].raw_text],
            result[p],
            [hist[p] EXCEPT !.last = "invoke", !.out = NoText,
                            !.unwaited = @ \/ (invocations[p] > 0 /\ hist[p].last # "sleep")])

(* The remote model answers with a text (lines 96-99). *)
ModelReturns(p) ==
    /\ pc[p] = "invoking"
    /\ Running(p)
    /\ \E t \in (IF mode = "threads" THEN ThreadTexts ELSE ModelTexts) :
          Step(p, "parse", [frame[p] EXCEPT !.text_out = t], result[p],
               [Logged(Seen(hist[p], Outcome(t)), frame[p].max_retries, Ok(t)) EXCEPT !.out = t])
    /\ UNCHANGED invocations

(* The remote call fails. *)
ModelRaises(p) ==
    /\ pc[p] = "invoking"
    /\ Running(p)
    /\ \E e \in InvokeErrors :
          Throw(p, e, Logged(Seen(hist[p], "invoke_raised"), frame[p].max_retries, Err(e)))
    /\ UNCHANGED invocations

(* An attempt whose text does not parse going on with the data an earlier  *)
(* attempt left in the local variable.                                     *)
Parse_keeps_data(p) ==
    /\ pc[p] = "parse"
    /\ Running(p)
    /\ LET parsed == parse_text(frame[p].text_out) IN
       IF parsed.ok
       THEN Step(p, "validate", [frame[p] EXCEPT !.data = parsed.value], result[p], hist[p])
       ELSE IF frame[p].data # NoValue
       THEN Step(p, "validate", frame[p], result[p], hist[p])
       ELSE Throw(p, parsed.exc, hist[p])
    /\ UNCHANGED invocations

Parse(p) ==
    /\ pc[p] = "parse"
    /\ Running(p)
    /\ LET parsed == parse_text(frame[p].text_out) IN
       IF parsed.ok
       THEN Step(p, "validate", [frame[p] EXCEPT !.data = parsed.value], result[p], hist[p])
       ELSE Throw(p, parsed.exc, hist[p])
    /\ UNCHANGED invocations

(* The loop going on to its next attempt after a successful validation    *)
(* while attempts are left.                                                *)
Validate_continues(p) ==
    /\ pc[p] = "validate"
    /\ Running(p)
    /\ LET validated == validate_json(frame[p].module, json_dumps(frame[p].data)) IN
       IF validated.ok
       THEN IF frame[p].attempt < frame[p].max_retries
            THEN Step(p, "sleeping", frame[p], result[p], hist[p])
            ELSE Step(p, "returned", frame[p], Returned(validated.value), hist[p])
       ELSE Throw(p, validated.exc, hist[p])
    /\ UNCHANGED invocations

(* validated = validate_json(json.dumps(data)); return validated *)
Validate(p) ==
    /\ pc[p] = "validate"
    /\ Running(p)
    /\ LET validated == validate_json(frame[p].module, json_dumps(frame[p].data)) IN
       IF validated.ok
       THEN Step(p, "returned", frame[p], Returned(validated.value), hist[p])
       ELSE Throw(p, validated.exc, hist[p])
    /\ UNCHANGED invocations

(* for attempt in range(max_retries + 1): the next value of attempt, or    *)
(* the end of the loop, after which the function returns None.             *)
for_next(f) ==
    IF f.attempt + 1 < f.max_retries + 1 THEN "try_invoke" ELSE "returned"

(* time.sleep(1) ends, the except clause is left (which unbinds its        *)
(* exception) and the loop goes to its next attempt.                       *)
WakeUp(p) ==
    /\ pc[p] = "sleeping"
    /\ Running(p)
    /\ IF for_next(frame[p]) = "try_invoke"
       THEN Step(p, "try_invoke", [frame[p] EXCEPT !.attempt = @ + 1, !.exc = NoExc],
                 result[p], hist[p])
       ELSE Step(p, "returned", [frame[p] EXCEPT !.exc = NoExc], Returned(PyNone), hist[p])
    /\ UNCHANGED invocations

(* A direct call convert_text_to_json(raw_text, max_retries=n), as the     *)
(* script converter.py makes at its end, or as each of several threads     *)
(* makes with the function of app.py.                                      *)
Call(p) ==
    /\ mode \in {"script", "threads"}
    /\ pc[p] = "idle"
    /\ \E module \in (IF mode = "threads" THEN {"app"} ELSE {"app", "converter"}),
          n \in 0..(IF mode = "threads" THEN ThreadRetriesBound ELSE MaxRetriesBound) :
          Step(p, "try_invoke", NewFrame(module, n, <<" ", "a">>), result[p], hist[p])
    /\ UNCHANGED invocations

---------------------------------------------------------------------------
(* The endpoints of app.py.  Each handler is an `async def` whose body is  *)
(* synchronous but for `await file.read()`: it runs on the event loop of   *)
(* the one server process from its start to its end, and gives the loop up *)
(* only where it awaits something that is not ready.                       *)

(* One step of request p's handler. *)
HandlerStep(p, newpc, newloop, newframe, newresponse) ==
    /\ pc' = [pc EXCEPT ![p] = newpc]
    /\ loop' = newloop
    /\ frame' = [frame EXCEPT ![p] = newframe]
    /\ response' = [response EXCEPT ![p] = newresponse]
    /\ UNCHANGED <<mode, request, result, invocations, sleeps, hist>>

(* A request arrives and its handler starts when the event loop is free. *)
Receive(p) ==
    /\ mode = "server"
    /\ pc[p] = "idle"
    /\ loop = 0
    /\ \E req \in Requests :
          /\ request' = [request EXCEPT ![p] = req]
          /\ pc' = [pc EXCEPT ![p] = IF req.endpoint = "convert" THEN "cf_check" ELSE "ct_check"]
    /\ loop' = p
    /\ UNCHANGED <<mode, frame, result, response, invocations, sleeps, hist>>

(* convert_file: if not file.filename.endswith('.txt') ... *)
convert_file_check(p) ==
    /\ pc[p] = "cf_check"
    /\ loop = p
    /\ IF ~endswith(request[p].filename, ".txt")
       THEN HandlerStep(p, "responded", loop, frame[p],
                        HTTPException(400, "Only .txt files are supported", NoExc))
       ELSE HandlerStep(p, "cf_read", loop, frame[p], response[p])

(* content = await file.read(): a small upload is read from memory without *)
(* suspending, a spooled one is read in a worker thread while the          *)
(* coroutine is suspended.                                                 *)
convert_file_read(p) ==
    /\ pc[p] = "cf_read"
    /\ loop = p
    /\ \E suspended \in BOOLEAN :
          HandlerStep(p, IF suspended THEN "cf_awaiting" ELSE "cf_decode",
                      IF suspended THEN 0 ELSE p, frame[p], response[p])

(* The read is done and the event loop resumes the coroutine. *)
Resume(p) ==
    /\ pc[p] = "cf_awaiting"
    /\ loop = 0
    /\ HandlerStep(p, "cf_decode", p, frame[p], response[p])

(* convert_file: decode, the emptiness check, the call (lines 171-180). *)
convert_file_convert(p) ==
    /\ pc[p] = "cf_decode"
    /\ loop = p
    /\ LET content == request[p].content IN
       IF ~content.utf8
       THEN HandlerStep(p, "responded", loop, frame[p],
                        HTTPException(400, "Conversion error",
                                      Exc("UnicodeDecodeError", "content.decode")))
       ELSE IF strip(content.text) = <<>>
       THEN HandlerStep(p, "responded", loop, frame[p],
                        HTTPException(400, "File is empty", NoExc))
       ELSE HandlerStep(p, "try_invoke", loop,
                        NewFrame("app", DEFAULT_MAX_RETRIES, content.text), response[p])

(* convert_text: the field check, the emptiness check, the call (lines 217-232). *)
convert_text_check(p) ==
    /\ pc[p] = "ct_check"
    /\ loop = p
    /\ LET body == request[p].body IN
       IF ~body.has_text
       THEN HandlerStep(p, "responded", loop, frame[p],
                        HTTPException(400, "Missing 'text' field in request body", NoExc))
       ELSE IF ~body.is_str
       THEN HandlerStep(p, "responded", loop, frame[p],
                        HTTPException(500, "Server error",
                                      Exc("AttributeError", "raw_text.strip")))
       ELSE IF strip(body.text) = <<>>
       THEN HandlerStep(p, "responded", loop, frame[p],
                        HTTPException(400, "Text cannot be empty", NoExc))
       ELSE HandlerStep(p, "try_invoke", loop,
                        NewFrame("app", DEFAULT_MAX_RETRIES, body.text), response[p])

(* convert_file after the conversion: lines 182-202. *)
convert_file_response(res) ==
    IF res.kind = "returned" THEN JSONResponse(res.value)
    ELSE IF IsValueError(res.exc) THEN HTTPException(400, "Conversion error", res.exc)
    ELSE HTTPException(500, "Server error", res.exc)

(* convert_text without its `except ValueError` clause. *)
convert_text_response_no_400(res) ==
    IF res.kind = "returned" THEN JSONResponse(res.value)
    ELSE HTTPException(500, "Server error", res.exc)

(* convert_text after the conversion: lines 234-253. *)
convert_text_response(res) ==
    IF res.kind = "returned" THEN JSONResponse(res.value)
    ELSE IF IsValueError(res.exc) THEN HTTPException(400, "Conversion error", res.exc)
    ELSE HTTPException(500, "Server error", res.exc)

(* The conversion has returned or raised: the handler answers. *)
Respond(p) ==
    /\ mode = "server"
    /\ pc[p] \in {"returned", "raised"}
    /\ loop = p
    /\ HandlerStep(p, "responded", loop, frame[p],
                   IF request[p].endpoint = "convert" THEN convert_file_response(result[p])
                   ELSE convert_text_response(result[p]))

(* The coroutine ends: the response is with the client, the event loop is *)
(* free and nothing of the request is kept.                                *)
Close(p) ==
    /\ pc[p] = "responded"
    /\ loop = p
    /\ pc' = [pc EXCEPT ![p] = "done"]
    /\ loop' = 0
    /\ request' = [request EXCEPT ![p] = NoRequest]
    /\ frame' = [frame EXCEPT ![p] = NoFrame]
    /\ result' = [result EXCEPT ![p] = NoResult]
    /\ invocations' = [invocations EXCEPT ![p] = 0]
    /\ sleeps' = [sleeps EXCEPT ![p] = 0]
    /\ hist' = [hist EXCEPT ![p] = NoHist]
    /\ response' = [response EXCEPT ![p] = NoResponse]
    /\ UNCHANGED mode

---------------------------------------------------------------------------
(* Specifications *)

InitCalls(m, P) ==
    /\ mode = m
    /\ loop = 0
    /\ pc = [p \in P |-> "idle"]
    /\ request = [p \in P |-> NoRequest]
    /\ frame = [p \in P |-> NoFrame]
    /\ result = [p \in P |-> NoResult]
    /\ response = [p \in P |-> NoResponse]
    /\ invocations = [p \in P |-> 0]
    /\ sleeps = [p \in P |-> 0]
    /\ hist = [p \in P |-> NoHist]

(* The server with NumRequests requests, or one direct call. *)
Init ==
    \E m \in {"server", "script"} :
        InitCalls(m, IF m = "server" THEN 1..NumRequests ELSE {1})

Next ==
    \/ \E p \in Procs : Call(p)
    \/ \E p \in Procs : Invoke(p)
    \/ \E p \in Procs : ModelReturns(p)
    \/ \E p \in Procs : ModelRaises(p)
    \/ \E p \in Procs : Parse(p)
    \/ \E p \in Procs : Validate(p)
    \/ \E p \in Procs : WakeUp(p)
    \/ \E p \in Procs : Receive(p)
    \/ \E p \in Procs : convert_file_check(p)
    \/ \E p \in Procs : convert_file_read(p)
    \/ \E p \in Procs : Resume(p)
    \/ \E p \in Procs : convert_file_convert(p)
    \/ \E p \in Procs : convert_text_check(p)
    \/ \E p \in Procs : Respond(p)
    \/ \E p \in Procs : Close(p)

Spec == Init /\ [][Next]_vars

(* One direct call of convert_text_to_json, run to its end: the           *)
(* interpreter goes on executing the one thread of the script, every      *)
(* chain.invoke returns or raises and every time.sleep(1) ends.            *)
InitCall == InitCalls("script", {1})

NextCall ==
    \/ \E p \in Procs : Call(p)
    \/ \E p \in Procs : Invoke(p)
    \/ \E p \in Procs : ModelReturns(p)
    \/ \E p \in Procs : ModelRaises(p)
    \/ \E p \in Procs : Parse(p)
    \/ \E p \in Procs : Validate(p)
    \/ \E p \in Procs : WakeUp(p)

SpecCall == InitCall /\ [][NextCall]_vars /\ WF_vars(NextCall)

(* NumThreads threads of one process, each calling convert_text_to_json of *)
(* app.py once, in any interleaving of their steps.                        *)
InitThreads == InitCalls("threads", 1..NumThreads)

SpecThreads == InitThreads /\ [][NextCall]_vars

(* validate_json alone: a call stands before line 106 (127) with any       *)
(* parsed value in data.                                                   *)
InitValidate ==
    /\ mode = "script"
    /\ loop = 0
    /\ pc = [p \in {1} |-> "validate"]
    /\ request = [p \in {1} |-> NoRequest]
    /\ \E module \in {"app", "converter"}, v \in JsonValues, f \in {"plain", "wrapped"} :
          frame = [p \in {1} |->
                     [NewFrame(module, DEFAULT_MAX_RETRIES, <<" ", "a">>)
                        EXCEPT !.site = "try", !.prompt = <<" ", "a">>,
                               !.text_out = Text(f, v), !.data = v]]
    /\ result = [p \in {1} |-> NoResult]
    /\ response = [p \in {1} |-> NoResponse]
    /\ invocations = [p \in {1} |-> 1]
    /\ sleeps = [p \in {1} |-> 0]
    /\ hist = [p \in {1} |-> [all |-> Outcome(frame[p].text_out), last |-> "invoke",
                               unwaited |-> FALSE, out |-> frame[p].text_out,
                               alone |-> NoAlone]]

NextValidate == \E p \in Procs : Validate(p)

SpecValidate == InitValidate /\ [][NextValidate]_vars

---------------------------------------------------------------------------
(* Vocabulary of the properties, stated without the model's own helpers *)

(* A record with all seven required keys. *)
IsRecord(v) == v.kind = "object" /\ RequiredSet \subseteq DOMAIN v.map

IsBlank(s) == \A i \in 1..Len(s) : s[i] = " "

(* The call is inside convert_text_to_json or has just left it. *)
InConversion(p) ==
    pc[p] \in {"try_invoke", "invoking", "parse", "validate", "handler_invoke",
               "sleeping", "returned", "raised"}

(* The request fails a boundary check of its endpoint. *)
BoundaryInvalid(req) ==
    \/ /\ req.endpoint = "convert"
       /\ \/ req.filename[Len(req.filename)] # ".txt"
          \/ req.content.utf8 /\ IsBlank(req.content.text)
    \/ /\ req.endpoint = "convert-text"
       /\ \/ ~req.body.has_text
          \/ req.body.is_str /\ IsBlank(req.body.text)

---------------------------------------------------------------------------
(* C1: no partial success: whatever convert_text_to_json of app.py returns *)
(* is a record holding all seven required keys, and so is the data of      *)
(* every 200 response.  The code returns a JSON string or array that       *)
(* mentions all seven key names as it is.                                  *)
C1_NoPartialSuccess ==
    \A p \in Procs :
        /\ (frame[p].module = "app" /\ result[p].kind = "returned") => IsRecord(result[p].value)
        /\ response[p].status = 200 => IsRecord(response[p].data)

(* C2: validate_json of app.py, given a parsed object O, returns the       *)
(* object whose keys are those of O and the seven required keys, with O's  *)
(* value at every key of O and "Not specified" at every other one.         *)
C2_SchemaCompletion ==
    \A p \in Procs :
        (frame[p].module = "app" /\ frame[p].data.kind = "object" /\ pc[p] # "validate")
        => LET O == frame[p].data.map
               R == result[p].value
           IN /\ result[p].kind = "returned"
              /\ R.kind = "object"
              /\ DOMAIN R.map = (DOMAIN O) \cup RequiredSet
              /\ \A k \in DOMAIN R.map :
                    R.map[k] = IF k \in DOMAIN O THEN O[k] ELSE "Not specified"

(* C2's case: O = {cleaning_slots: v} has been completed. *)
C2_Witness ==
    \E p \in Procs :
        /\ frame[p].module = "app"
        /\ pc[p] = "returned"
        /\ frame[p].data = Obj([k \in {"cleaning_slots"} |-> "v"])
        /\ result[p].value.map["date"] = "Not specified"
        /\ result[p].value.map["cleaning_slots"] = "v"

(* C3: when every model invocation of a call fails, the call ends by       *)
(* raising after exactly max_retries + 1 invocations, and raises the       *)
(* failure of the last one.                                                *)
C3_RetryExhaustion ==
    \A p \in Procs :
        (pc[p] = "raised" /\ hist[p].all = "invoke_raised")
        => /\ invocations[p] = frame[p].max_retries + 1
           /\ result[p].kind = "raised"
           /\ result[p].exc.at = "chain.invoke"

(* C4: a call of app.py invokes the model once per attempt and at most     *)
(* max_retries + 1 times, whatever the kind of its failures: the number of *)
(* invocations and of waits is fixed by the number of failed attempts.     *)
C4_AttemptBudget ==
    \A p \in Procs :
        (frame[p].module = "app" /\ InConversion(p))
        => /\ invocations[p] <= frame[p].max_retries + 1
           /\ pc[p] # "try_invoke" => invocations[p] = frame[p].attempt + 1
           /\ sleeps[p] = frame[p].attempt + (IF pc[p] = "sleeping" THEN 1 ELSE 0)

(* C5: in a call of app.py every invocation after the first comes after a  *)
(* backoff wait that followed the previous invocation, and the call never  *)
(* ends right after a wait.                                                *)
C5_BackoffBeforeRetry ==
    \A p \in Procs :
        frame[p].module = "app"
        => /\ ~hist[p].unwaited
           /\ pc[p] \in {"returned", "raised"} => hist[p].last # "sleep"

(* C6: a model output that was parsed to a JSON object never fails in      *)
(* validate_json, of app.py or of converter.py: an object lacking required *)
(* keys is completed, it is not an error and causes no retry.              *)
C6_CompletionNeverFails ==
    \A p \in Procs :
        frame[p].data.kind = "object"
        => /\ frame[p].exc.at # "validate_json"
           /\ result[p].exc.at # "validate_json"

(* C7: POST /convert with a valid upload and a model that answers every    *)
(* invocation with text holding no JSON: the conversion raises, and is     *)
(* answered, only on the last attempt (attempt = max_retries, after at     *)
(* least max_retries + 1 invocations), with status 400 and the parse error *)
(* as the cause in its detail.                                             *)
C7_ParseFailure400AfterExhaustion ==
    \A p \in Procs :
        (request[p].endpoint = "convert" /\ hist[p].all = "unparseable"
            /\ pc[p] \in {"raised", "responded"})
        => /\ frame[p].attempt = DEFAULT_MAX_RETRIES
           /\ invocations[p] >= DEFAULT_MAX_RETRIES + 1
           /\ pc[p] = "responded"
                => /\ response[p].status = 400
                   /\ response[p].detail = "Conversion error"
                   /\ response[p].cause = Exc("JSONDecodeError", "json.loads")

(* C7's case: such a request has been answered. *)
C7_Witness ==
    \E p \in Procs :
        /\ request[p].endpoint = "convert"
        /\ hist[p].all = "unparseable"
        /\ pc[p] = "responded"
        /\ response[p].status = 400
        /\ sleeps[p] = DEFAULT_MAX_RETRIES

(* C8: a request that fails a boundary check (a filename not ending in     *)
(* .txt, blank content, no text field, blank text) never enters the        *)
(* conversion: no model invocation, no wait, and its response is 400.      *)
C8_BoundaryValidation ==
    \A p \in Procs :
        BoundaryInvalid(request[p])
        => /\ invocations[p] = 0
           /\ sleeps[p] = 0
           /\ ~InConversion(p)
           /\ frame[p] = NoFrame
           /\ pc[p] = "responded" => response[p].status = 400

(* C8's case: a whitespace-only text has been answered. *)
C8_Witness ==
    \E p \in Procs :
        /\ pc[p] = "responded"
        /\ request[p].endpoint = "convert-text"
        /\ request[p].body.has_text
        /\ request[p].body.text = <<" ", " ">>
        /\ response[p].status = 400

C10_BlockedDoesNotBlock ==
    \A p \in Procs :
        (mode = "server" /\ pc[p] \in {"invoking", "sleeping"})
        => /\ loop # p
           /\ \A q \in Procs \ {p} : pc[q] = "idle" => ENABLED Receive(q)

---------------------------------------------------------------------------
(* C15: the completion of app.py is idempotent.  When validate_json of     *)
(* app.py has returned for an object O that already holds all seven        *)
(* required keys, what it returned is O itself, values and foreign keys    *)
(* included; and whatever object it was given, completing what it returned *)
(* once more returns the same value again.                                 *)
C15_CompletionIdempotent ==
    \A p \in Procs :
        (pc[p] = "returned" /\ frame[p].module = "app" /\ frame[p].data.kind = "object")
        => /\ (\A i \in 1..Len(required_keys) : required_keys[i] \in DOMAIN frame[p].data.map)
                => result[p].value = frame[p].data
           /\ validate_json_app(json_dumps(result[p].value)).ok
           /\ validate_json_app(json_dumps(result[p].value)).value = result[p].value

(* C15's case: a complete mapping with a value of its own and a foreign    *)
(* key went through validate_json of app.py.                               *)
C15_Witness ==
    \E p \in Procs :
        /\ pc[p] = "returned"
        /\ frame[p].module = "app"
        /\ frame[p].data.kind = "object"
        /\ DOMAIN frame[p].data.map = AllKeys
        /\ frame[p].data.map["date"] = "v"
        /\ frame[p].data.map["mileage"] = NotSpecified

---------------------------------------------------------------------------
(* C17: the invocation budget of app.py.  Iteration number attempt starts  *)
(* with at most 2 * attempt invocations behind it and performs at most two *)
(* of its own: one in the try body and one in the ValueError handler.  The *)
(* handler is entered only with a ValueError of the try body and with no   *)
(* wait since the failed invocation.  A call therefore never exceeds       *)
(* 2 * (max_retries + 1) invocations and max_retries waits, and a call     *)
(* that has returned has waited once per earlier iteration only: a success *)
(* in the handler ends the call in the iteration it happened in.           *)
C17_InvocationBudget ==
    \A p \in Procs :
        (InConversion(p) /\ frame[p].module = "app")
        => LET f == frame[p] IN
           /\ f.attempt <= f.max_retries
           /\ invocations[p] <= 2 * (f.max_retries + 1)
           /\ sleeps[p] <= f.max_retries
           /\ pc[p] = "try_invoke" => invocations[p] <= 2 * f.attempt
           /\ (pc[p] \in {"invoking", "parse", "validate", "handler_invoke"} /\ f.site = "try")
                => invocations[p] <= 2 * f.attempt + 1
           /\ pc[p] # "try_invoke" => invocations[p] <= 2 * f.attempt + 2
           /\ pc[p] = "handler_invoke"
                => /\ f.site = "try"
                   /\ f.exc.type \in {"ValueError", "JSONDecodeError", "OutputParserException"}
                   /\ hist[p].last = "invoke"
           /\ pc[p] = "sleeping" => sleeps[p] = f.attempt + 1
           /\ pc[p] # "sleeping" => sleeps[p] = f.attempt

(* C17's case: the second iteration failed in its try body and succeeded   *)
(* in its handler: four invocations, one wait, and the call has returned.  *)
C17_Witness ==
    \E p \in Procs :
        /\ pc[p] = "returned"
        /\ frame[p].module = "app"
        /\ frame[p].site = "handler"
        /\ frame[p].attempt = 1
        /\ invocations[p] = 4
        /\ sleeps[p] = 1

---------------------------------------------------------------------------
(* C18: convert_text_to_json of app.py returns JSON objects only.  A model *)
(* output that parses to an array, a string or a scalar never makes the    *)
(* call return; when every invocation of a call gave such an output the    *)
(* call ends by raising an error that is no ValueError and the endpoint    *)
(* answers 500.  The code returns a JSON array or string that mentions all *)
(* seven key names, and the endpoint answers 200 with it.                  *)
C18_OnlyObjectsReturned ==
    \A p \in Procs :
        (InConversion(p) \/ pc[p] = "responded") /\ frame[p].module = "app"
        => /\ result[p].kind = "returned" => frame[p].data.kind = "object"
           /\ (hist[p].all = "nonobject" /\ pc[p] = "raised")
                => result[p].exc.type \notin {"ValueError", "JSONDecodeError",
                                               "OutputParserException"}
           /\ (hist[p].all = "nonobject" /\ pc[p] = "responded" /\ frame[p].data # NoValue)
                => response[p].status = 500

---------------------------------------------------------------------------
(* The order of the written specification: the strict parser first, the    *)
(* lenient extraction when it fails.                                       *)
strict_then_lenient(t) ==
    IF t.form \in {"plain", "strict_only"} THEN t.value
    ELSE IF t.form = "wrapped" THEN t.value
    ELSE NoValue

---------------------------------------------------------------------------
(* C16: retries carry no state.  Within a call of app.py every invocation  *)
(* is given the raw_text the call was given; raw_text, max_retries and the *)
(* chain stay what they were from the first step of the call to its last;  *)
(* going from a failed attempt to the next one changes the attempt counter *)
(* and nothing the next attempt reads; no result exists before the call    *)
(* ends.  The value that is validated is parsed from the text of the       *)
(* latest invocation, and the value returned is made from that text alone: *)
(* for an object its keys and values plus "Not specified" for each missing *)
(* required key.                                                           *)
C16_RetriesCarryNoState ==
    /\ [](\A p \in Procs :
            (InConversion(p) /\ frame[p].module = "app")
            => LET f == frame[p]
                   out == hist[p].out
               IN  /\ pc[p] = "invoking" => f.prompt = f.raw_text
                   /\ pc[p] \notin {"returned", "raised"} => result[p].kind = "none"
                   /\ pc[p] \in {"validate", "returned"}
                        => /\ out.form \in {"plain", "wrapped", "strict_only"}
                           /\ f.text_out = out
                           /\ f.data = out.value
                   /\ (pc[p] = "returned" /\ out.value.kind = "object")
                        => /\ DOMAIN result[p].value.map = DOMAIN out.value.map \cup RequiredSet
                           /\ \A k \in DOMAIN result[p].value.map :
                                 result[p].value.map[k]
                                   = IF k \in DOMAIN out.value.map THEN out.value.map[k]
                                     ELSE NotSpecified
                   /\ (pc[p] = "returned" /\ out.value.kind # "object")
                        => result[p].value = out.value)
    /\ [][\A p \in Procs :
            (InConversion(p) /\ InConversion(p)' /\ frame[p].module = "app")
            => /\ frame'[p].raw_text = frame[p].raw_text
               /\ frame'[p].max_retries = frame[p].max_retries
               /\ frame'[p].module = frame[p].module
               /\ (pc[p] = "sleeping" /\ pc'[p] # "sleeping")
                    => /\ pc'[p] = "try_invoke"
                       /\ frame'[p].attempt = frame[p].attempt + 1
                       /\ result'[p] = result[p]
                       /\ invocations'[p] = invocations[p]
       ]_vars

(* C16's case: two attempts failed, with outputs of different kinds, and   *)
(* the third attempt's incomplete object was completed and returned.       *)
C16_Witness ==
    \E p \in Procs :
        /\ pc[p] = "returned"
        /\ frame[p].module = "app"
        /\ frame[p].attempt = 2
        /\ hist[p].all = "mixed"
        /\ hist[p].out.value.kind = "object"
        /\ DOMAIN hist[p].out.value.map = {"cleaning_slots"}
        /\ IsRecord(result[p].value)

---------------------------------------------------------------------------
---------------------------------------------------------------------------
(* C13: termination in a terminal state.  A call of convert_text_to_json   *)
(* (app.py or converter.py, any max_retries) that has started ends, and it *)
(* ends in one of two ways: it has returned a record holding the seven     *)
(* required keys, or it has raised; it never returns None by running off   *)
(* the end of the retry loop.  The call does end and never returns None,   *)
(* but both modules return a JSON array or string that mentions the seven  *)
(* key names, which is no record.                                          *)
C13_TerminatesInSuccessOrExhausted ==
    /\ (\E p \in Procs : pc[p] = "try_invoke")
          ~> (\A p \in Procs : pc[p] \in {"returned", "raised"})
    /\ [](\A p \in Procs :
            /\ pc[p] = "returned"
                 => /\ result[p].kind = "returned"
                    /\ result[p].value.kind # "None"
                    /\ result[p].value.kind = "object"
                    /\ \A i \in 1..Len(required_keys) :
                          required_keys[i] \in DOMAIN result[p].value.map
            /\ pc[p] = "raised"
                 => /\ result[p].kind = "raised"
                    /\ result[p].exc.type # "none")

---------------------------------------------------------------------------
(* C11: isolation of concurrent conversions.  In every interleaving of the *)
(* steps of concurrent calls of convert_text_to_json of app.py, a call     *)
(* that has ended has the result (record or error), the attempt counter    *)
(* and the number of invocations that a call running alone has with the    *)
(* same max_retries and the same answers to its own invocations; and a     *)
(* call that is between two invocations, or waits for an answer, has no    *)
(* result yet, has made as many invocations and is in the same attempt as  *)
(* the call running alone.                                                 *)
C11_IsolatedCalls ==
    \A p \in Procs :
        (mode = "threads" /\ InConversion(p))
        => LET a == hist[p].alone IN
           /\ pc[p] \in {"returned", "raised"}
                => /\ a.pc = pc[p]
                   /\ a.result = result[p]
                   /\ a.attempt = frame[p].attempt
                   /\ a.invocations = invocations[p]
           /\ pc[p] \in {"try_invoke", "invoking", "handler_invoke", "sleeping"}
                => /\ a.pc = "running"
                   /\ result[p] = NoResult
                   /\ a.invocations = invocations[p] - (IF pc[p] = "invoking" THEN 1 ELSE 0)
                   /\ a.attempt = frame[p].attempt + (IF pc[p] = "sleeping" THEN 1 ELSE 0)

(* C11's case: of two concurrent calls one has exhausted its retries in    *)
(* its second iteration and the other has returned a record from its first *)
(* invocation.                                                             *)
C11_Witness ==
    /\ mode = "threads"
    /\ \E p, q \in Procs :
          /\ p # q
          /\ pc[p] = "raised"
          /\ frame[p].attempt = 1
          /\ invocations[p] >= 3
          /\ pc[q] = "returned"
          /\ frame[q].attempt = 0
          /\ invocations[q] = 1
          /\ IsRecord(result[q].value)

=============================================================================
